---- MODULE Spec2Model ----
(***************************************************************************)
(* Model of examples/mnist_branch.py: a straight-line script that parses   *)
(* its command line, builds a branching MLP (Tree of three paths), a       *)
(* weighted Multicost, an optimizer, optionally restores weights, wires    *)
(* the callbacks, runs fit and prints the misclassification error.         *)
(*                                                                         *)
(* Every statement that calls into the framework is one step; the call     *)
(* either returns or raises.  The script has no try/except, so a raise     *)
(* unwinds to the interpreter, which terminates the process with a         *)
(* non-zero exit status.  The model records every framework call (and the  *)
(* os.path.exists check) in `log`, in program order.                       *)
(*                                                                         *)
(* The `assert` of line 129 is modelled as executed: the documented        *)
(* invocation is `python mnist_mlp.py ...` (lines 24-37), without -O.      *)
(***************************************************************************)
EXTENDS Integers, Sequences, FiniteSets, TLC

VARIABLES pc, status, args, disk, log, layers, alphas, cost, stdout

vars == <<pc, status, args, disk, log, layers, alphas, cost, stdout>>

(* ---------------------------- bounds ----------------------------------- *)
MaxEpochs == 2      \* --epochs ranges over 1..MaxEpochs
MaxFreq == 2        \* --validation_freq and --serialize range over -1..MaxFreq
MaxErr == 1         \* eval returns an error rate of 0..MaxErr tenths of a percent

(* --------------------------- input domains ----------------------------- *)
\* "" stands for an option that was not given (None) or given empty: both
\* are falsy in the `if args.model_file:` test.
ModelFiles == {"", "model.pkl"}
SavePaths == {"", "checkpoint.pkl"}
Freqs == -1..MaxFreq
Epochs == 1..MaxEpochs

\* args before parser.parse_args() has returned
NoArgs == [epochs |-> 0, model_file |-> "", validation_freq |-> 0,
           serialize |-> 0, save_path |-> ""]

(* --------------------------- call log ---------------------------------- *)
\* One entry per framework call / existence check.  res is "ok" when the
\* call returned, "raise" when the framework raised, "AssertionError" when
\* the script's own assert failed.
Ev(op, data, path, n, res) ==
    [op |-> op, data |-> data, path |-> path, n |-> n, res |-> res]

Idx(op) == {i \in 1..Len(log) : log[i].op = op}
Count(op) == Cardinality(Idx(op))
Called(op) == Idx(op) # {}
Returned(op) == \E i \in Idx(op) : log[i].res = "ok"

\* Python truthiness of an int / of a str
TruthyInt(v) == v # 0
TruthyStr(s) == s # ""

(* ------------------------- unhandled exception ------------------------- *)
\* A raise in a step: nothing catches it, the interpreter exits.
Raise(e) ==
    /\ log' = Append(log, e)
    /\ status' = "failed"
    /\ pc' = "exit"

\* A framework call that returns and falls through to the next statement.
Return(e, next) ==
    /\ log' = Append(log, e)
    /\ status' = status
    /\ pc' = next

\* Process exit status seen by the caller.
ExitCode == IF status = "failed" THEN 1 ELSE 0

(* ------------------------------ topology ------------------------------- *)
Affine(nout, name, act) ==
    [kind |-> "Affine", name |-> name, nout |-> nout, act |-> act]
BranchNode(name) ==
    [kind |-> "BranchNode", name |-> name, nout |-> 0, act |-> ""]

b1 == BranchNode("b1")
b2 == BranchNode("b2")

p1 == << Affine(100, "m_l1", "Rectlin"),
         b1,
         Affine(32, "m_l2", "Rectlin"),
         Affine(16, "m_l3", "Rectlin"),
         b2,
         Affine(10, "m_l4", "Softmax") >>

p2 == << b1,
         Affine(16, "b1_l1", "Rectlin"),
         Affine(10, "b1_l2", "Logistic") >>

\* third path rooted at a branch node that no path declares
p3_UndeclaredBranch ==
    << BranchNode("b3"),
       Affine(16, "b2_l1", "Rectlin"),
       Affine(10, "b2_l2", "Logistic") >>

p3 == << b2,
         Affine(16, "b2_l1", "Rectlin"),
         Affine(10, "b2_l2", "Logistic") >>

\* alphas with the main path's weight in the wrong position
Alphas_MainNotFirst == << <<1, 4>>, <<1, 1>>, <<1, 4>> >>

\* alphas = [1, 0.25, 0.25]; a weight is the fraction <<numerator, denominator>>
Alphas == << <<1, 1>>, <<1, 4>>, <<1, 4>> >>

CostFuncs == << "CrossEntropyMulti", "CrossEntropyBinary", "CrossEntropyBinary" >>

NoCost == [costs |-> << >>, weights |-> << >>]
NoTree == [paths |-> << >>, alphas |-> << >>]

(* ------------------------------- Init ---------------------------------- *)
Init ==
    /\ pc = "parse"
    /\ status = "running"
    /\ args = NoArgs
    /\ disk \in SUBSET (ModelFiles \ {""})
    /\ log = << >>
    /\ layers = NoTree
    /\ alphas = << >>
    /\ cost = NoCost
    /\ stdout = << >>

(* ------------------------------ actions -------------------------------- *)
\* lines 58-63: parser = NeonArgparser(__doc__); args = parser.parse_args()
ParseArgs ==
    /\ pc = "parse" /\ status = "running"
    /\ \/ \E e \in Epochs, mf \in ModelFiles, vf \in Freqs,
             s \in Freqs, sp \in SavePaths :
             /\ args' = [epochs |-> e, model_file |-> mf,
                         validation_freq |-> vf, serialize |-> s,
                         save_path |-> sp]
             /\ Return(Ev("parse_args", "", "", 0, "ok"), "backend")
       \/ /\ Raise(Ev("parse_args", "", "", 0, "raise"))
          /\ UNCHANGED args
    /\ UNCHANGED <<disk, layers, alphas, cost, stdout>>

\* lines 66-75: be = gen_backend(...)
GenBackend ==
    /\ pc = "backend" /\ status = "running"
    /\ \/ Return(Ev("gen_backend", "", "", 128, "ok"), "load_mnist")
       \/ Raise(Ev("gen_backend", "", "", 128, "raise"))
    /\ UNCHANGED <<args, disk, layers, alphas, cost, stdout>>

\* line 80: load_mnist(path=args.data_dir)
LoadMnist ==
    /\ pc = "load_mnist" /\ status = "running"
    /\ \/ Return(Ev("load_mnist", "", "", 0, "ok"), "iterators")
       \/ Raise(Ev("load_mnist", "", "", 0, "raise"))
    /\ UNCHANGED <<args, disk, layers, alphas, cost, stdout>>

\* lines 83-85: train_set / valid_set = DataIterator(...)
MakeIterators ==
    /\ pc = "iterators" /\ status = "running"
    /\ \/ Return(Ev("DataIterator", "train_set+valid_set", "", 0, "ok"), "cost")
       \/ Raise(Ev("DataIterator", "train_set+valid_set", "", 0, "raise"))
    /\ UNCHANGED <<args, disk, layers, alphas, cost, stdout>>

\* lines 114-120: alphas = [...]; cost = Multicost(costs=[...], weights=alphas)
\* (lines 88-112 only build the layer lists p1, p2, p3 used at line 126)
BuildCost ==
    /\ pc = "cost" /\ status = "running"
    /\ alphas' = Alphas
    /\ \/ /\ cost' = [costs |-> CostFuncs, weights |-> alphas']
          /\ Return(Ev("Multicost", "", "", Len(CostFuncs), "ok"), "optimizer")
       \/ /\ Raise(Ev("Multicost", "", "", Len(CostFuncs), "raise"))
          /\ UNCHANGED cost
    /\ UNCHANGED <<args, disk, layers, stdout>>

\* line 123: optimizer = GradientDescentMomentum(0.1, momentum_coef=0.9, ...)
BuildOptimizer ==
    /\ pc = "optimizer" /\ status = "running"
    /\ \/ Return(Ev("GradientDescentMomentum", "", "", 0, "ok"), "model")
       \/ Raise(Ev("GradientDescentMomentum", "", "", 0, "raise"))
    /\ UNCHANGED <<args, disk, layers, alphas, cost, stdout>>

\* line 126: mlp = Model(layers=Tree([p1, p2, p3], alphas=alphas))
BuildModel ==
    /\ pc = "model" /\ status = "running"
    /\ \/ /\ layers' = [paths |-> <<p1, p2, p3>>, alphas |-> alphas]
          /\ Return(Ev("Model", "", "", 3, "ok"), "model_file")
       \/ /\ Raise(Ev("Model", "", "", 3, "raise"))
          /\ UNCHANGED layers
    /\ UNCHANGED <<args, disk, alphas, cost, stdout>>

\* the guard with the assert dropped: load_weights is attempted regardless
ModelFileGuard_NoAssert ==
    /\ pc = "model_file" /\ status = "running"
    /\ IF TruthyStr(args.model_file)
       THEN Return(Ev("os.path.exists", "", args.model_file, 0, "ok"),
                   "load_weights")
       ELSE /\ pc' = "callbacks"
            /\ UNCHANGED <<log, status>>
    /\ UNCHANGED <<args, disk, layers, alphas, cost, stdout>>

\* the guard checking the file but never handing it to load_weights
ModelFileGuard_SkipLoad ==
    /\ pc = "model_file" /\ status = "running"
    /\ IF TruthyStr(args.model_file)
       THEN IF args.model_file \in disk
            THEN Return(Ev("os.path.exists", "", args.model_file, 0, "ok"),
                        "callbacks")
            ELSE Raise(Ev("os.path.exists", "", args.model_file, 0,
                          "AssertionError"))
       ELSE /\ pc' = "callbacks"
            /\ UNCHANGED <<log, status>>
    /\ UNCHANGED <<args, disk, layers, alphas, cost, stdout>>

\* lines 128-129: if args.model_file: assert os.path.exists(args.model_file)
ModelFileGuard ==
    /\ pc = "model_file" /\ status = "running"
    /\ IF TruthyStr(args.model_file)
       THEN IF args.model_file \in disk
            THEN Return(Ev("os.path.exists", "", args.model_file, 0, "ok"),
                        "load_weights")
            ELSE Raise(Ev("os.path.exists", "", args.model_file, 0,
                          "AssertionError"))
       ELSE /\ pc' = "callbacks"
            /\ UNCHANGED <<log, status>>
    /\ UNCHANGED <<args, disk, layers, alphas, cost, stdout>>

\* load_weights handed the checkpoint path instead of the model file
LoadWeights_WrongPath ==
    /\ pc = "load_weights" /\ status = "running"
    /\ \/ Return(Ev("load_weights", "", args.save_path, 0, "ok"), "callbacks")
       \/ Raise(Ev("load_weights", "", args.save_path, 0, "raise"))
    /\ UNCHANGED <<args, disk, layers, alphas, cost, stdout>>

\* lines 130-131: logger.info(...); mlp.load_weights(args.model_file)
LoadWeights ==
    /\ pc = "load_weights" /\ status = "running"
    /\ \/ Return(Ev("load_weights", "", args.model_file, 0, "ok"), "callbacks")
       \/ Raise(Ev("load_weights", "", args.model_file, 0, "raise"))
    /\ UNCHANGED <<args, disk, layers, alphas, cost, stdout>>

\* lines 134-135: callbacks = Callbacks(mlp, train_set, ...)
MakeCallbacks ==
    /\ pc = "callbacks" /\ status = "running"
    /\ \/ Return(Ev("Callbacks", "train_set", "", 0, "ok"), "validation")
       \/ Raise(Ev("Callbacks", "train_set", "", 0, "raise"))
    /\ UNCHANGED <<args, disk, layers, alphas, cost, stdout>>

\* validation callback registered without testing validation_freq
AddValidation_Always ==
    /\ pc = "validation" /\ status = "running"
    /\ \/ Return(Ev("add_validation_callback", "valid_set", "",
                    args.validation_freq, "ok"), "serialize")
       \/ Raise(Ev("add_validation_callback", "valid_set", "",
                   args.validation_freq, "raise"))
    /\ UNCHANGED <<args, disk, layers, alphas, cost, stdout>>

\* lines 137-139: if args.validation_freq: callbacks.add_validation_callback(...)
AddValidation ==
    /\ pc = "validation" /\ status = "running"
    /\ IF TruthyInt(args.validation_freq)
       THEN \/ Return(Ev("add_validation_callback", "valid_set", "",
                         args.validation_freq, "ok"), "serialize")
            \/ Raise(Ev("add_validation_callback", "valid_set", "",
                        args.validation_freq, "raise"))
       ELSE /\ pc' = "serialize"
            /\ UNCHANGED <<log, status>>
    /\ UNCHANGED <<args, disk, layers, alphas, cost, stdout>>

\* serialize guard written as >= 0
AddSerialize_NonNegative ==
    /\ pc = "serialize" /\ status = "running"
    /\ IF args.serialize >= 0
       THEN \/ Return(Ev("add_serialize_callback", "", args.save_path,
                         args.serialize, "ok"), "fit")
            \/ Raise(Ev("add_serialize_callback", "", args.save_path,
                        args.serialize, "raise"))
       ELSE /\ pc' = "fit"
            /\ UNCHANGED <<log, status>>
    /\ UNCHANGED <<args, disk, layers, alphas, cost, stdout>>

\* serialize statement that fails on an empty save_path with an error of its own
AddSerialize_RequirePath ==
    /\ pc = "serialize" /\ status = "running"
    /\ IF args.serialize > 0
       THEN IF args.save_path = ""
            THEN Raise(Ev("add_serialize_callback", "", args.save_path,
                          args.serialize, "AssertionError"))
            ELSE \/ Return(Ev("add_serialize_callback", "", args.save_path,
                              args.serialize, "ok"), "fit")
                 \/ Raise(Ev("add_serialize_callback", "", args.save_path,
                             args.serialize, "raise"))
       ELSE /\ pc' = "fit"
            /\ UNCHANGED <<log, status>>
    /\ UNCHANGED <<args, disk, layers, alphas, cost, stdout>>

\* lines 141-146: if args.serialize > 0: callbacks.add_serialize_callback(...)
AddSerialize ==
    /\ pc = "serialize" /\ status = "running"
    /\ IF args.serialize > 0
       THEN LET checkpoint_schedule == args.serialize
                checkpoint_model_path == args.save_path
            IN \/ Return(Ev("add_serialize_callback", "", checkpoint_model_path,
                            checkpoint_schedule, "ok"), "fit")
               \/ Raise(Ev("add_serialize_callback", "", checkpoint_model_path,
                           checkpoint_schedule, "raise"))
       ELSE /\ pc' = "fit"
            /\ UNCHANGED <<log, status>>
    /\ UNCHANGED <<args, disk, layers, alphas, cost, stdout>>

\* fit given an epoch count that is not --epochs
Fit_WrongEpochs ==
    /\ pc = "fit" /\ status = "running"
    /\ \/ Return(Ev("fit", "train_set", "", args.epochs + 1, "ok"), "eval")
       \/ Raise(Ev("fit", "train_set", "", args.epochs + 1, "raise"))
    /\ UNCHANGED <<args, disk, layers, alphas, cost, stdout>>

\* fit wrapped in a try/except that swallows the failure and carries on
Fit_CatchAndContinue ==
    /\ pc = "fit" /\ status = "running"
    /\ \/ Return(Ev("fit", "train_set", "", args.epochs, "ok"), "eval")
       \/ Return(Ev("fit", "train_set", "", args.epochs, "raise"), "eval")
    /\ UNCHANGED <<args, disk, layers, alphas, cost, stdout>>

\* line 149: mlp.fit(train_set, optimizer=..., num_epochs=num_epochs, ...)
Fit ==
    /\ pc = "fit" /\ status = "running"
    /\ LET num_epochs == args.epochs
       IN \/ Return(Ev("fit", "train_set", "", num_epochs, "ok"), "eval")
          \/ Raise(Ev("fit", "train_set", "", num_epochs, "raise"))
    /\ UNCHANGED <<args, disk, layers, alphas, cost, stdout>>

\* line 151: print('Misclassification error = %.1f%%' % (mlp.eval(...)*100))
\* eval returns the error rate; the line shows it in tenths of a percent.
EvalAndPrint ==
    /\ pc = "eval" /\ status = "running"
    /\ \/ \E err \in 0..MaxErr :
             /\ log' = Append(log, Ev("eval", "valid_set", "", err, "ok"))
             /\ stdout' = Append(stdout,
                    [text |-> "Misclassification error", tenths |-> err])
             /\ pc' = "exit"
             /\ status' = "ok"
       \/ /\ Raise(Ev("eval", "valid_set", "", 0, "raise"))
          /\ UNCHANGED stdout
    /\ UNCHANGED <<args, disk, layers, alphas, cost>>

Next ==
    \/ ParseArgs
    \/ GenBackend
    \/ LoadMnist
    \/ MakeIterators
    \/ BuildCost
    \/ BuildOptimizer
    \/ BuildModel
    \/ ModelFileGuard
    \/ LoadWeights
    \/ MakeCallbacks
    \/ AddValidation
    \/ AddSerialize
    \/ Fit
    \/ EvalAndPrint

Spec == Init /\ [][Next]_vars

\* The interpreter runs the next statement whenever there is one, and every
\* framework call is a blocking call that returns or raises.
FairSpec == Spec /\ WF_vars(Next)

TypeOK ==
    /\ pc \in {"parse", "backend", "load_mnist", "iterators", "cost",
               "optimizer", "model", "model_file", "load_weights", "callbacks",
               "validation", "serialize", "fit", "eval", "exit"}
    /\ status \in {"running", "ok", "failed"}
    /\ Len(stdout) <= 1

(* ======================= properties of the script ======================= *)
LastOp == IF log = << >> THEN "" ELSE log[Len(log)].op

\* the run has gone through the statement of lines 137-139
PastValidation ==
    \/ pc \in {"serialize", "fit", "eval"}
    \/ /\ pc = "exit"
       /\ LastOp \in {"add_validation_callback", "add_serialize_callback",
                      "fit", "eval"}

\* the run has gone through the statement of lines 141-146
PastSerialize ==
    \/ pc \in {"fit", "eval"}
    \/ /\ pc = "exit"
       /\ LastOp \in {"add_serialize_callback", "fit", "eval"}

MissingModelFile ==
    TruthyStr(args.model_file) /\ args.model_file \notin disk

AfterGuardOps ==
    {"load_weights", "Callbacks", "add_validation_callback",
     "add_serialize_callback", "fit", "eval"}

\* C1: when --model_file is supplied and the path is missing on disk, the
\* run never reaches load_weights, Callbacks, add_validation_callback,
\* add_serialize_callback, fit or the metric print, and when the process
\* has ended it has ended failed, with a non-zero exit status.
C1_MissingModelFileIsFatal ==
    MissingModelFile =>
        /\ \A i \in 1..Len(log) : log[i].op \notin AfterGuardOps
        /\ pc \notin {"load_weights", "callbacks", "validation", "serialize",
                      "fit", "eval"}
        /\ stdout = << >>
        /\ (pc = "exit" => status = "failed" /\ ExitCode # 0)

C1_Witness ==
    /\ MissingModelFile
    /\ pc = "exit"
    /\ LastOp = "os.path.exists"
    /\ log[Len(log)].res = "AssertionError"

\* C2: the existence check on the supplied model_file fails exactly when the
\* path is absent from disk; it is the only error the script raises itself;
\* when the path exists the check passes and the next call is load_weights
\* with that same path.
C2_LoadInitialWeightsFailsIffMissing ==
    /\ \A i \in 1..Len(log) :
          log[i].res = "AssertionError" => log[i].op = "os.path.exists"
    /\ \A i \in Idx("os.path.exists") :
          /\ log[i].path = args.model_file
          /\ (log[i].res = "AssertionError") <=> (log[i].path \notin disk)
          /\ log[i].path \in disk =>
                /\ log[i].res = "ok"
                /\ IF i = Len(log)
                   THEN pc = "load_weights" /\ status = "running"
                   ELSE /\ log[i + 1].op = "load_weights"
                        /\ log[i + 1].path = log[i].path

C2_Witness ==
    \E i \in Idx("os.path.exists") :
        /\ log[i].path \in disk
        /\ i < Len(log)
        /\ log[i + 1].op = "load_weights"
        /\ args.save_path # args.model_file

\* C3: validation_freq = 0 never registers a validation callback; with
\* validation_freq = f > 0, once the run is past the validation statement,
\* add_validation_callback has been called exactly once, with the validation
\* set and f -- whatever serialize and save_path are.
C3_ValidationCadence ==
    /\ args.validation_freq = 0 => ~Called("add_validation_callback")
    /\ (args.validation_freq > 0 /\ PastValidation) =>
          /\ Count("add_validation_callback") = 1
          /\ \A i \in Idx("add_validation_callback") :
                /\ log[i].data = "valid_set"
                /\ log[i].n = args.validation_freq

C3_Witness ==
    /\ args.validation_freq > 0
    /\ Returned("add_validation_callback")
    /\ args.serialize <= 0
    /\ Returned("fit")

\* C4: serialize = c <= 0 never registers a serialize callback; with c > 0,
\* once the run is past the serialize statement, add_serialize_callback has
\* been called exactly once, with schedule c and the path given by
\* --save_path -- whatever validation_freq is.
C4_SerializeCadence ==
    /\ (args.serialize <= 0) => ~Called("add_serialize_callback")
    /\ (args.serialize > 0 /\ PastSerialize) =>
          /\ Count("add_serialize_callback") = 1
          /\ \A i \in Idx("add_serialize_callback") :
                /\ log[i].n = args.serialize
                /\ log[i].path = args.save_path

C4_Witness ==
    /\ args.serialize > 0
    /\ args.save_path # ""
    /\ Returned("add_serialize_callback")
    /\ args.validation_freq = 0
    /\ Returned("fit")

\* C5 as stated: with serialize > 0 and an empty save_path no serialize
\* callback is registered and fit is not reached.
C5_EmptySavePathRejected ==
    (args.serialize > 0 /\ args.save_path = "") =>
        /\ ~Called("add_serialize_callback")
        /\ ~Called("fit")

\* C5 amended: with serialize > 0 and an empty save_path the script makes no
\* check of its own: once past the serialize statement it has called
\* add_serialize_callback exactly once with schedule serialize and the empty
\* path, no error of the script's own is raised there, and when that call
\* returns the run goes on to fit.
C5_EmptySavePathPassedThrough ==
    (args.serialize > 0 /\ args.save_path = "" /\ PastSerialize) =>
        /\ Count("add_serialize_callback") = 1
        /\ \A i \in Idx("add_serialize_callback") :
              /\ log[i].path = ""
              /\ log[i].n = args.serialize
              /\ log[i].res \in {"ok", "raise"}
              /\ (log[i].res = "ok" /\ i = Len(log)) => pc = "fit"
              /\ (log[i].res = "ok" /\ i < Len(log)) => log[i + 1].op = "fit"

C5_Witness ==
    /\ args.serialize > 0
    /\ args.save_path = ""
    /\ Returned("add_serialize_callback")
    /\ Called("fit")

\* equality of two weights given as fractions
RatEq(a, b) == a[1] * b[2] = b[1] * a[2]

\* C6: once built, the Multicost holds exactly one cost term per path of the
\* tree, in path order: 3 terms weighted 1, 0.25, 0.25, the first being
\* CrossEntropyMulti and the others CrossEntropyBinary; the tree has 3 paths
\* and carries the same weights.
C6_OneCostTermPerPath ==
    /\ Returned("Multicost") =>
          /\ Len(cost.costs) = 3
          /\ Len(cost.weights) = Len(cost.costs)
          /\ RatEq(cost.weights[1], <<1, 1>>)
          /\ RatEq(cost.weights[2], <<25, 100>>)
          /\ RatEq(cost.weights[3], <<25, 100>>)
          /\ cost.costs[1] = "CrossEntropyMulti"
          /\ \A i \in 2..Len(cost.costs) : cost.costs[i] = "CrossEntropyBinary"
    /\ Returned("Model") =>
          /\ Len(layers.paths) = Len(cost.costs)
          /\ Len(layers.alphas) = Len(layers.paths)
          /\ \A i \in 1..Len(layers.alphas) :
                RatEq(layers.alphas[i], cost.weights[i])

C6_Witness ==
    /\ Returned("Multicost")
    /\ Returned("Model")
    /\ Len(layers.paths) = 3

\* branch node b is declared inside path j (anywhere but as its root)
DeclaredIn(b, j) ==
    \E k \in 2..Len(layers.paths[j]) : layers.paths[j][k] = b

\* path i fans out of path j
Edge(j, i) ==
    /\ i \in 2..Len(layers.paths)
    /\ j \in 1..Len(layers.paths)
    /\ DeclaredIn(layers.paths[i][1], j)

RECURSIVE Reach(_, _)
Reach(S, n) ==
    IF n = 0 THEN S
    ELSE Reach(S \cup {i \in 1..Len(layers.paths) : \E j \in S : Edge(j, i)},
               n - 1)

Descendants(j) ==
    Reach({i \in 1..Len(layers.paths) : Edge(j, i)}, Len(layers.paths))

\* C7: in the tree [p1, p2, p3] every subordinate path starts from a branch
\* node that is declared in exactly one path, that path comes earlier in
\* declaration order, and the fan-out graph is acyclic and rooted at the
\* main path.
C7_BranchPointsDeclaredEarlier ==
    Returned("Model") =>
        /\ Len(layers.paths) = 3
        /\ \A i \in 2..Len(layers.paths) :
              /\ layers.paths[i][1].kind = "BranchNode"
              /\ Cardinality({j \in 1..Len(layers.paths) :
                                 DeclaredIn(layers.paths[i][1], j)}) = 1
              /\ \A j \in 1..Len(layers.paths) :
                    DeclaredIn(layers.paths[i][1], j) => j < i
              /\ i \in Descendants(1)
        /\ layers.paths[2][1].name = "b1"
        /\ layers.paths[3][1].name = "b2"
        /\ DeclaredIn(layers.paths[2][1], 1)
        /\ DeclaredIn(layers.paths[3][1], 1)
        /\ \A j \in 1..Len(layers.paths) : j \notin Descendants(j)

C7_Witness ==
    /\ Returned("Model")
    /\ Descendants(1) = {2, 3}

\* C8: when --model_file is supplied and exists, a run that reaches fit has
\* called load_weights exactly once, with that path, successfully and before
\* fit; when --model_file is not supplied, neither the existence check nor
\* load_weights is ever performed and the statement after building the
\* model is the Callbacks construction.
C8_WeightsLoadedBeforeFit ==
    /\ (TruthyStr(args.model_file) /\ args.model_file \in disk
          /\ Called("fit")) =>
          /\ Count("load_weights") = 1
          /\ \A i \in Idx("load_weights") :
                /\ log[i].path = args.model_file
                /\ log[i].res = "ok"
                /\ \A j \in Idx("fit") : i < j
    /\ ~TruthyStr(args.model_file) =>
          /\ ~Called("os.path.exists")
          /\ ~Called("load_weights")
          /\ pc # "load_weights"
          /\ \A i \in Idx("Model") :
                i < Len(log) => log[i + 1].op = "Callbacks"

C8_Witness ==
    /\ TruthyStr(args.model_file)
    /\ args.model_file \in disk
    /\ Returned("load_weights")
    /\ Called("fit")

BuildOps == {"parse_args", "gen_backend", "load_mnist", "DataIterator",
             "Multicost", "GradientDescentMomentum", "Model", "Callbacks"}

RegistrationOps == {"Callbacks", "add_validation_callback",
                    "add_serialize_callback"}

C9_Safety ==
    /\ \A op \in BuildOps : Count(op) <= 1
    /\ Count("fit") <= 1
    /\ \A i \in Idx("fit") :
          /\ log[i].n = args.epochs
          /\ \A j \in 1..Len(log) : log[j].op \in RegistrationOps => j < i
          /\ PastSerialize
    /\ Len(stdout) <= 1
    /\ stdout # << >> => Returned("fit") /\ Returned("eval")
    /\ status = "ok" => pc = "exit" /\ Len(stdout) = 1

\* C9: the configuration is built once and fit is invoked at most once, with
\* num_epochs = --epochs and after all callback registrations; the metric
\* line is printed at most once and only after fit has returned; every run
\* terminates, and a run that ends successfully has printed the line.
C9_FitOnceThenPrint ==
    /\ []C9_Safety
    /\ <>(pc = "exit" /\ (status = "ok" => Len(stdout) = 1))

C9_Witness ==
    /\ pc = "exit"
    /\ status = "ok"
    /\ Len(stdout) = 1
    /\ Returned("fit")

\* C10: a step is only ever taken while no failure has occurred; a step whose
\* call raises ends the process right there (failed, nothing printed, nothing
\* after it), a step whose call returns does not; no call is ever made twice.
\* So no step follows a failure, and a failed fit is never followed by the
\* metric print.
C10_FailuresAreFatal ==
    [][ /\ status = "running"
        /\ Len(log') = Len(log) + 1 =>
              /\ SubSeq(log', 1, Len(log)) = log
              /\ (log'[Len(log')].res # "ok") <=> (status' = "failed")
        /\ status' = "failed" =>
              /\ Len(log') = Len(log) + 1
              /\ pc' = "exit"
              /\ stdout' = stdout
        /\ \A i, j \in 1..Len(log') :
              i # j => log'[i].op # log'[j].op
      ]_vars

C10_Witness ==
    /\ status = "failed"
    /\ pc = "exit"
    /\ LastOp = "fit"
    /\ stdout = << >>
====
